---- MODULE Spec2Model ----
(***************************************************************************)
(* Model of app/agents/base_agents.py: the tool handlers, KnowledgeAgent,  *)
(* SalesAgent, AnalyticsAgent and the MainBaekhoAgent orchestration.       *)
(*                                                                         *)
(* A Python str is a sequence of tokens.  User messages are sequences of   *)
(* single characters, so that lower(), the `in` containment test and the   *)
(* [:50] slice are computed character by character.  A string literal of   *)
(* the program is one token; an f-string is the concatenation of its       *)
(* literal parts and its interpolated values.                              *)
(***************************************************************************)
EXTENDS Integers, Sequences, FiniteSets, TLC

VARIABLES
    op,          \* the operation invoked directly on a tool or agent, and its result
    metrics,     \* AnalyticsAgent.conversation_metrics (the dict: a counter and two list references)
    heap,        \* the list objects, by reference
    views,       \* the mappings get_metrics() has handed out to callers
    calls,       \* the handle_user_message coroutines of one MainBaekhoAgent
    running,     \* the coroutine holding the event loop (0: none)
    completions  \* the order in which the LLM completions arrived

vars == <<op, metrics, heap, views, calls, running, completions>>

----------------------------------------------------------------------------
(* Bounds *)

MaxFrags == 2        \* fragments per generated message
MaxTracks == 2       \* direct track_conversation calls
MaxViews == 1        \* mappings handed out by get_metrics
MaxListLen == 2      \* length of a list a caller appends to
MaxCalls == 2        \* handle_user_message calls on one agent

----------------------------------------------------------------------------
(* Strings *)

EmptyStr == <<>>

UpperChars ==
    <<"A", "B", "C", "D", "E", "F", "G", "H", "I", "J", "K", "L", "M",
      "N", "O", "P", "Q", "R", "S", "T", "U", "V", "W", "X", "Y", "Z", "Ó">>

LowerChars ==
    <<"a", "b", "c", "d", "e", "f", "g", "h", "i", "j", "k", "l", "m",
      "n", "o", "p", "q", "r", "s", "t", "u", "v", "w", "x", "y", "z", "ó">>

\* str.lower() on one character
LowerChar(c) ==
    IF \E i \in 1..Len(UpperChars) : UpperChars[i] = c
    THEN LowerChars[CHOOSE i \in 1..Len(UpperChars) : UpperChars[i] = c]
    ELSE c

\* str.lower()
Lower(s) == [i \in 1..Len(s) |-> LowerChar(s[i])]

\* sub in s
Contains(s, sub) ==
    \E i \in 0..(Len(s) - Len(sub)) : SubSeq(s, i + 1, i + Len(sub)) = sub

\* s[:n]
Prefix(s, n) == SubSeq(s, 1, IF Len(s) < n THEN Len(s) ELSE n)

\* any(k in s for k in keywords)
ContainsAny(s, keywords) == \E k \in keywords : Contains(s, k)

KW_promocion ==
    <<"p", "r", "o", "m", "o", "c", "i", "o", "n">>
KW_descuento ==
    <<"d", "e", "s", "c", "u", "e", "n", "t", "o">>
KW_oferta ==
    <<"o", "f", "e", "r", "t", "a">>
KW_uniforme ==
    <<"u", "n", "i", "f", "o", "r", "m", "e">>
KW_cinturon ==
    <<"c", "i", "n", "t", "u", "r", "o", "n">>
KW_proteccion ==
    <<"p", "r", "o", "t", "e", "c", "c", "i", "o", "n">>
KW_gracias ==
    <<"g", "r", "a", "c", "i", "a", "s">>
KW_perfecto ==
    <<"p", "e", "r", "f", "e", "c", "t", "o">>
KW_excelente ==
    <<"e", "x", "c", "e", "l", "e", "n", "t", "e">>
KW_me_gusta ==
    <<"m", "e", " ", "g", "u", "s", "t", "a">>
KW_comprar ==
    <<"c", "o", "m", "p", "r", "a", "r">>
KW_precio ==
    <<"p", "r", "e", "c", "i", "o">>
KW_disponible ==
    <<"d", "i", "s", "p", "o", "n", "i", "b", "l", "e">>
KW_stock ==
    <<"s", "t", "o", "c", "k">>

----------------------------------------------------------------------------
(* Results of a call: a returned str or a raised exception (its text) *)

Return(s) == [type |-> "str", val |-> s]
Raise(e) == [type |-> "raise", val |-> e]
NoResult == [type |-> "none", val |-> EmptyStr]

----------------------------------------------------------------------------
(* The collaborators: what one call of each does in a given environment *)

Ok(v) == [raises |-> FALSE, exc |-> EmptyStr, value |-> v]
Fails(e) == [raises |-> TRUE, exc |-> e, value |-> <<>>]

ExcTimeout == <<"timed out">>
ExcRefused == <<"connection refused">>
ExcTexts == {ExcTimeout, ExcRefused}

\* dict.get(key, default)
DictGet(d, key, default) == IF key \in DOMAIN d THEN d[key] ELSE default

EmptyDict == [k \in {} |-> EmptyStr]

\* a search hit: a mapping with "payload" and "score", or something that is not a mapping
Hit(payload, hasPayload, score, hasScore) ==
    [isdict |-> TRUE, hasPayload |-> hasPayload, payload |-> payload,
     hasScore |-> hasScore, score |-> score]
NotAMapping ==
    [isdict |-> FALSE, hasPayload |-> FALSE, payload |-> EmptyDict,
     hasScore |-> FALSE, score |-> EmptyStr]

ProductPayload ==
    [nombre |-> <<"'Dobok'">>, descripcion |-> <<"'Uniforme WT'">>, precio |-> <<"120000">>,
     categoria |-> <<"'uniformes'">>, disponible |-> <<"True">>, stock |-> <<"3">>]
SparsePayload ==
    [nombre |-> <<"'Cinturon negro'">>]
PromotionPayload ==
    [descripcion |-> <<"'Semana del dobok'">>, descuento |-> <<"15">>,
     productos_nombres |-> <<"'Dobok'">>, fecha_fin |-> <<"'2025-12-31'">>]

HitProduct == Hit(ProductPayload, TRUE, <<"0.91">>, TRUE)
HitSparse == Hit(SparsePayload, TRUE, EmptyStr, FALSE)
HitPromotion == Hit(PromotionPayload, TRUE, <<"0.0">>, TRUE)
HitBare == Hit(EmptyDict, FALSE, EmptyStr, FALSE)

AttributeErrorText == <<"'NoneType' object has no attribute 'get'">>


\* a chat row and a message row of the relational layer
Chat(id) == [id |-> id]
Mensaje(rol, contenido, fecha) ==
    [valid |-> TRUE, rol |-> rol, contenido |-> contenido, fechaCreacion |-> fecha]
MensajeSinContenido ==
    [valid |-> FALSE, rol |-> <<"'user'">>, contenido |-> EmptyStr, fechaCreacion |-> EmptyStr]

LongContent == [i \in 1..205 |-> "x"]

TypeErrorText == <<"'NoneType' object is not subscriptable">>

Env(q, e, s, c, m) ==
    [qdrant_init |-> q, encode_query |-> e, search_similar |-> s,
     get_chats_by_usuario |-> c, get_mensajes_by_chat |-> m]

Vector == <<"vec">>

SomeMensajes ==
    <<Mensaje(<<"'user'">>, <<"h", "o", "l", "a">>, <<"2025-01-01T10:00:00">>),
      Mensaje(<<"'assistant'">>, LongContent, EmptyStr)>>

EnvOk ==
    Env(Ok(<<>>), Ok(Vector), Ok(<<HitProduct, HitSparse>>), Ok(<<Chat(1), Chat(2)>>), Ok(SomeMensajes))
EnvPromotions ==
    Env(Ok(<<>>), Ok(Vector), Ok(<<HitPromotion, HitBare>>), Ok(<<Chat(1)>>), Ok(<<>>))
EnvEmpty ==
    Env(Ok(<<>>), Ok(Vector), Ok(<<>>), Ok(<<>>), Ok(<<>>))
EnvMalformed ==
    Env(Ok(<<>>), Ok(Vector), Ok(<<HitProduct, NotAMapping>>), Ok(<<Chat(1)>>), Ok(<<MensajeSinContenido>>))
EnvQdrantDown(e) ==
    Env(Fails(e), Ok(Vector), Ok(<<HitProduct>>), Ok(<<Chat(1)>>), Ok(SomeMensajes))
EnvEmbedFails(e) ==
    Env(Ok(<<>>), Fails(e), Ok(<<HitProduct>>), Ok(<<Chat(1)>>), Ok(SomeMensajes))
EnvSearchFails(e) ==
    Env(Ok(<<>>), Ok(Vector), Fails(e), Ok(<<Chat(1)>>), Fails(e))
\* the embedding service times out and the vector store refuses the connection
EnvVectorSideDown ==
    Env(Ok(<<>>), Fails(ExcTimeout), Fails(ExcRefused), Ok(<<Chat(1)>>), Ok(SomeMensajes))
EnvDbFails(e) ==
    Env(Ok(<<>>), Ok(Vector), Ok(<<HitProduct>>), Fails(e), Ok(SomeMensajes))

\* the environments a directly invoked tool or agent is run in
Envs ==
    {EnvOk, EnvPromotions, EnvEmpty, EnvMalformed, EnvQdrantDown(ExcRefused), EnvVectorSideDown}
    \cup {EnvEmbedFails(e) : e \in ExcTexts}
    \cup {EnvSearchFails(e) : e \in ExcTexts}
    \cup {EnvDbFails(e) : e \in ExcTexts}

\* the vector store or the embedding service raises in this environment
VectorSideFails(env) ==
    env.qdrant_init.raises \/ env.encode_query.raises \/ env.search_similar.raises

----------------------------------------------------------------------------
(* str() of a list of dicts *)

RECURSIVE JoinItems(_)
JoinItems(items) ==
    IF Len(items) = 0 THEN EmptyStr
    ELSE IF Len(items) = 1 THEN items[1]
    ELSE items[1] \o <<", ">> \o JoinItems(Tail(items))

ListStr(items) == <<"[">> \o JoinItems(items) \o <<"]">>

NA == <<"'N/A'">>

----------------------------------------------------------------------------
(* ProductSearchTool *)

NoProductsMessage == <<"No se encontraron productos que coincidan con tu búsqueda.">>
ProductErrorPrefix == <<"Error ejecutando búsqueda: ">>

FormatProduct(hit) ==
    LET payload == IF hit.hasPayload THEN hit.payload ELSE EmptyDict
        score == IF hit.hasScore THEN hit.score ELSE <<"0">>
    IN <<"{'nombre': ">> \o DictGet(payload, "nombre", NA)
       \o <<", 'descripcion': ">> \o DictGet(payload, "descripcion", NA)
       \o <<", 'precio': ">> \o DictGet(payload, "precio", NA)
       \o <<", 'categoria': ">> \o DictGet(payload, "categoria", NA)
       \o <<", 'disponible': ">> \o DictGet(payload, "disponible", <<"True">>)
       \o <<", 'stock': ">> \o DictGet(payload, "stock", <<"0">>)
       \o <<", 'relevance_score': ">> \o score \o <<"}">>

\* the try block of ProductSearchTool.handle
ProductSearchTool_try(query, category, max_results, env) ==
    IF env.qdrant_init.raises THEN Raise(env.qdrant_init.exc)
    ELSE IF env.encode_query.raises THEN Raise(env.encode_query.exc)
    ELSE IF env.search_similar.raises THEN Raise(env.search_similar.exc)
    ELSE LET results == env.search_similar.value IN
         IF Len(results) = 0 THEN Return(NoProductsMessage)
         ELSE IF \E i \in 1..Len(results) : ~results[i].isdict THEN Raise(AttributeErrorText)
         ELSE Return(ListStr([i \in 1..Len(results) |-> FormatProduct(results[i])]))

\* a handler that lets the exception through
ProductSearchTool_except_Reraise(e) == Raise(e)

\* except Exception as e
ProductSearchTool_except(e) == Return(ProductErrorPrefix \o e)

ProductSearchTool_handle(query, category, max_results, env) ==
    LET r == ProductSearchTool_try(query, category, max_results, env)
    IN IF r.type = "raise" THEN ProductSearchTool_except(r.val) ELSE r

----------------------------------------------------------------------------
(* PromotionSearchTool *)

NoPromotionsMessage == <<"No hay promociones activas en este momento.">>
PromotionErrorPrefix == <<"Error obteniendo promociones: ">>

FormatPromotion(hit) ==
    LET payload == IF hit.hasPayload THEN hit.payload ELSE EmptyDict
    IN <<"{'descripcion': ">> \o DictGet(payload, "descripcion", NA)
       \o <<", 'descuento': ">> \o DictGet(payload, "descuento", <<"0">>)
       \o <<", 'productos': ">> \o DictGet(payload, "productos_nombres", NA)
       \o <<", 'fecha_fin': ">> \o DictGet(payload, "fecha_fin", NA) \o <<"}">>

PromotionSearchTool_try(env) ==
    IF env.qdrant_init.raises THEN Raise(env.qdrant_init.exc)
    ELSE IF env.search_similar.raises THEN Raise(env.search_similar.exc)
    ELSE LET results == env.search_similar.value IN
         IF Len(results) = 0 THEN Return(NoPromotionsMessage)
         ELSE IF \E i \in 1..Len(results) : ~results[i].isdict THEN Raise(AttributeErrorText)
         ELSE Return(ListStr([i \in 1..Len(results) |-> FormatPromotion(results[i])]))

PromotionSearchTool_except(e) == Return(PromotionErrorPrefix \o e)

PromotionSearchTool_handle(env) ==
    LET r == PromotionSearchTool_try(env)
    IN IF r.type = "raise" THEN PromotionSearchTool_except(r.val) ELSE r

----------------------------------------------------------------------------
(* UserHistoryTool *)

NoHistoryMessage == <<"Usuario sin historial previo">>
HistoryErrorPrefix == <<"Error obteniendo historial: ">>

FormatMensaje(msg) ==
    <<"{'rol': ">> \o msg.rol
    \o <<", 'contenido': '">> \o Prefix(msg.contenido, 200)
    \o <<"', 'fecha': ">>
    \o (IF Len(msg.fechaCreacion) > 0 THEN <<"'">> \o msg.fechaCreacion \o <<"'">> ELSE <<"None">>)
    \o <<"}">>

UserHistoryTool_try(user_id, limit, env) ==
    IF env.get_chats_by_usuario.raises THEN Raise(env.get_chats_by_usuario.exc)
    ELSE LET user_chats == env.get_chats_by_usuario.value IN
         IF Len(user_chats) = 0 THEN Return(NoHistoryMessage)
         ELSE IF env.get_mensajes_by_chat.raises THEN Raise(env.get_mensajes_by_chat.exc)
         ELSE LET recent_messages == env.get_mensajes_by_chat.value IN
              IF \E i \in 1..Len(recent_messages) : ~recent_messages[i].valid
              THEN Raise(TypeErrorText)
              ELSE Return(ListStr([i \in 1..Len(recent_messages) |-> FormatMensaje(recent_messages[i])]))

UserHistoryTool_except(e) == Return(HistoryErrorPrefix \o e)

UserHistoryTool_handle(user_id, limit, env) ==
    LET r == UserHistoryTool_try(user_id, limit, env)
    IN IF r.type = "raise" THEN UserHistoryTool_except(r.val) ELSE r

----------------------------------------------------------------------------
(* KnowledgeAgent *)

KnowledgeErrorMessage == <<"Lo siento, hubo un error accediendo a la base de conocimiento.">>

PromotionKeywords == {KW_promocion, KW_descuento, KW_oferta}

\* the condition without lower()
IsPromotionQuery_CaseSensitive(msg) ==
    \/ Contains(msg, KW_promocion)
    \/ Contains(msg, KW_descuento)
    \/ Contains(msg, KW_oferta)

\* the condition of the if in handle_message_fallback
IsPromotionQuery(msg) ==
    \/ Contains(Lower(msg), KW_promocion)
    \/ Contains(Lower(msg), KW_descuento)
    \/ Contains(Lower(msg), KW_oferta)

Invocation(tool, query, ret) == [tool |-> tool, query |-> query, ret |-> ret]

\* the try block: the tool constructed and handled, and what its handle() gave
KnowledgeAgent_try(msg, env) ==
    IF IsPromotionQuery(msg)
    THEN LET r == PromotionSearchTool_handle(env)
         IN [ret |-> r, invoked |-> <<Invocation("promotion_search", EmptyStr, r)>>]
    ELSE LET r == ProductSearchTool_handle(msg, EmptyStr, 5, env)
         IN [ret |-> r, invoked |-> <<Invocation("product_search", msg, r)>>]

KnowledgeAgent_except(e) == Return(KnowledgeErrorMessage)

\* handle_message_fallback with no handler in the tool nor in the agent
KnowledgeAgent_handle_message_fallback_NoCatch(msg, env) ==
    IF IsPromotionQuery(msg)
    THEN LET r == PromotionSearchTool_try(env)
         IN [ret |-> r, invoked |-> <<Invocation("promotion_search", EmptyStr, r)>>]
    ELSE LET r == ProductSearchTool_try(msg, EmptyStr, 5, env)
         IN [ret |-> r, invoked |-> <<Invocation("product_search", msg, r)>>]

KnowledgeAgent_handle_message_fallback(msg, env) ==
    LET r == KnowledgeAgent_try(msg, env)
    IN IF r.ret.type = "raise"
       THEN [ret |-> KnowledgeAgent_except(r.ret.val), invoked |-> r.invoked]
       ELSE r

----------------------------------------------------------------------------
(* SalesAgent *)

SuggestionPrefix == <<"Sugerencias adicionales: ">>
SuggestBeltOrProtection == <<"¿Has considerado también un cinturón o protecciones?">>
SuggestUniform == <<"¿Te interesaría ver nuestros uniformes a juego?">>
SuggestGloves == <<"¿Necesitas también guantes o espinilleras?">>
ContinueMessage == <<"Continuando con la conversación...">>
SalesErrorMessage == <<"Error en análisis de ventas">>

\* the chain with belt tested before uniform
SalesAgent_recommendations_BeltFirst(msg) ==
    IF Contains(Lower(msg), KW_cinturon) THEN <<SuggestUniform>>
    ELSE IF Contains(Lower(msg), KW_uniforme) THEN <<SuggestBeltOrProtection>>
    ELSE IF Contains(Lower(msg), KW_proteccion) THEN <<SuggestGloves>>
    ELSE <<>>

\* the if/elif chain filling the recommendations list
SalesAgent_recommendations(msg) ==
    IF Contains(Lower(msg), KW_uniforme) THEN <<SuggestBeltOrProtection>>
    ELSE IF Contains(Lower(msg), KW_cinturon) THEN <<SuggestUniform>>
    ELSE IF Contains(Lower(msg), KW_proteccion) THEN <<SuggestGloves>>
    ELSE <<>>

\* ' '.join(recommendations)
RECURSIVE JoinSpace(_)
JoinSpace(items) ==
    IF Len(items) = 0 THEN EmptyStr
    ELSE IF Len(items) = 1 THEN items[1]
    ELSE items[1] \o <<" ">> \o JoinSpace(Tail(items))

SalesAgent_try(msg) ==
    LET recommendations == SalesAgent_recommendations(msg)
    IN IF Len(recommendations) > 0
       THEN Return(SuggestionPrefix \o JoinSpace(recommendations))
       ELSE Return(ContinueMessage)

SalesAgent_except(e) == Return(SalesErrorMessage)

SalesAgent_handle_message_fallback(msg) ==
    LET r == SalesAgent_try(msg)
    IN IF r.type = "raise" THEN SalesAgent_except(r.val) ELSE r


----------------------------------------------------------------------------
(* Inputs: the messages a directly invoked agent is given *)

F_Hola == <<"h", "o", "l", "a", " ">>
F_Promo == <<"P", "R", "O", "M", "O">>
F_cion == <<"c", "i", "o", "n">>
F_Promocion_acento == <<"P", "r", "o", "m", "o", "c", "i", "ó", "n">>
F_Descuento == <<"D", "e", "s", "c", "u", "e", "n", "t", "o">>
F_Oferta == <<"o", "F", "e", "R", "t", "A">>
F_Uniforme == <<"U", "n", "i", "F", "O", "R", "M", "E">>
F_Cinturon == <<"c", "i", "n", "t", "u", "r", "o", "n">>
F_Proteccion == <<"P", "R", "O", "T", "E", "C", "C", "I", "O", "N">>
F_Ofert == <<"o", "f", "e", "r", "t">>
F_Space == <<" ">>

Fragments ==
    {F_Hola, F_Promo, F_cion, F_Promocion_acento, F_Descuento, F_Oferta, F_Uniforme, F_Cinturon, F_Proteccion, F_Ofert, F_Space}

RECURSIVE Concat(_)
Concat(parts) == IF Len(parts) = 0 THEN EmptyStr ELSE parts[1] \o Concat(Tail(parts))

\* every concatenation of at most MaxFrags fragments
Messages ==
    UNION {{Concat(parts) : parts \in [1..n -> Fragments]} : n \in 0..MaxFrags}

----------------------------------------------------------------------------
(* A tool or an agent invoked directly *)

Operation(name, msg, arg, env, invoked, ret) ==
    [name |-> name, msg |-> msg, arg |-> arg, env |-> env, invoked |-> invoked, ret |-> ret]

Idle == Operation("idle", EmptyStr, EmptyStr, EnvOk, <<>>, NoResult)

Input(msg, env) == Operation("input", msg, EmptyStr, env, <<>>, NoResult)

FreshMetrics ==
    [total_messages |-> 0, user_satisfaction |-> "L1", conversion_indicators |-> "L2"]

FreshHeap == [L1 |-> <<>>, L2 |-> <<>>]

\* the objects as AnalyticsAgent.__init__ and MainBaekhoAgent.__init__ leave them
Fresh ==
    /\ metrics = FreshMetrics
    /\ heap = FreshHeap
    /\ views = <<>>
    /\ calls = <<>>
    /\ running = 0
    /\ completions = <<>>

InitAgents ==
    /\ op \in {Input(m, e) : m \in Messages, e \in Envs}
    /\ Fresh

analytics == <<metrics, heap, views>>
orchestrator == <<calls, running, completions>>

CallProductSearchTool ==
    /\ op.name = "input"
    /\ \E category \in {EmptyStr, <<"uniformes">>} :
         op' = [op EXCEPT !.name = "ProductSearchTool.handle", !.arg = category,
                          !.ret = ProductSearchTool_handle(op.msg, category, 5, op.env)]
    /\ UNCHANGED <<analytics, orchestrator>>

CallPromotionSearchTool ==
    /\ op.name = "input"
    /\ op' = [op EXCEPT !.name = "PromotionSearchTool.handle",
                        !.ret = PromotionSearchTool_handle(op.env)]
    /\ UNCHANGED <<analytics, orchestrator>>

CallUserHistoryTool ==
    /\ op.name = "input"
    /\ \E user_id \in 1..2 :
         op' = [op EXCEPT !.name = "UserHistoryTool.handle",
                          !.ret = UserHistoryTool_handle(user_id, 10, op.env)]
    /\ UNCHANGED <<analytics, orchestrator>>

CallKnowledgeAgent ==
    /\ op.name = "input"
    /\ LET r == KnowledgeAgent_handle_message_fallback(op.msg, op.env)
       IN op' = [op EXCEPT !.name = "KnowledgeAgent.handle_message_fallback",
                           !.invoked = r.invoked, !.ret = r.ret]
    /\ UNCHANGED <<analytics, orchestrator>>

CallSalesAgent ==
    /\ op.name = "input"
    /\ op' = [op EXCEPT !.name = "SalesAgent.handle_message_fallback",
                        !.ret = SalesAgent_handle_message_fallback(op.msg)]
    /\ UNCHANGED <<analytics, orchestrator>>

NextAgents ==
    \/ CallProductSearchTool
    \/ CallPromotionSearchTool
    \/ CallUserHistoryTool
    \/ CallKnowledgeAgent
    \/ CallSalesAgent

SpecAgents == InitAgents /\ [][NextAgents]_vars


----------------------------------------------------------------------------
(* AnalyticsAgent *)

\* "hola" (4 characters)
M_hola ==
    <<"h", "o", "l", "a">>
\* "Muchas GRACIAS" (14 characters)
M_gracias ==
    <<"M", "u", "c", "h", "a", "s", " ", "G", "R", "A", "C", "I", "A", "S">>
\* "Precio?" (7 characters)
M_precio ==
    <<"P", "r", "e", "c", "i", "o", "?">>
\* "Quiero COMPRAR un dobok para mi hijo de diez años, talla 140" (60 characters)
M_largo ==
    <<"Q", "u", "i", "e", "r", "o", " ", "C", "O", "M", "P", "R", "A", "R", " ", "u",
      "n", " ", "d", "o", "b", "o", "k", " ", "p", "a", "r", "a", " ", "m", "i", " ",
      "h", "i", "j", "o", " ", "d", "e", " ", "d", "i", "e", "z", " ", "a", "ñ", "o",
      "s", ",", " ", "t", "a", "l", "l", "a", " ", "1", "4", "0">>
\* "Descuento en uniformes?" (23 characters)
M_descuento_uniforme ==
    <<"D", "e", "s", "c", "u", "e", "n", "t", "o", " ", "e", "n", " ", "u", "n", "i",
      "f", "o", "r", "m", "e", "s", "?">>
\* "Me gusta el cinturon, hay stock?" (32 characters)
M_me_gusta_cinturon ==
    <<"M", "e", " ", "g", "u", "s", "t", "a", " ", "e", "l", " ", "c", "i", "n", "t",
      "u", "r", "o", "n", ",", " ", "h", "a", "y", " ", "s", "t", "o", "c", "k", "?">>

PositiveIndicators == {KW_gracias, KW_perfecto, KW_excelente, KW_me_gusta}
ConversionIndicators == {KW_comprar, KW_precio, KW_disponible, KW_stock}

Positive == <<"positive">>

\* track_conversation that counts a message only once its response is known
TrackConversation_CountsAnswered(m, h, user_msg, bot_response) ==
    LET sat == m.user_satisfaction
        conv == m.conversion_indicators
        h1 == IF ContainsAny(Lower(user_msg), PositiveIndicators)
              THEN [h EXCEPT ![sat] = Append(@, Positive)]
              ELSE h
        h2 == IF ContainsAny(Lower(user_msg), ConversionIndicators)
              THEN [h1 EXCEPT ![conv] = Append(@, Prefix(user_msg, 50))]
              ELSE h1
    IN [metrics |-> [m EXCEPT !.total_messages = IF bot_response = EmptyStr THEN @ ELSE @ + 1],
        heap |-> h2]

\* track_conversation that scans the message only while no response is known
TrackConversation_SkipsWhenAnswered(m, h, user_msg, bot_response) ==
    LET sat == m.user_satisfaction
        conv == m.conversion_indicators
        scan == bot_response = EmptyStr
        h1 == IF scan /\ ContainsAny(Lower(user_msg), PositiveIndicators)
              THEN [h EXCEPT ![sat] = Append(@, Positive)]
              ELSE h
        h2 == IF scan /\ ContainsAny(Lower(user_msg), ConversionIndicators)
              THEN [h1 EXCEPT ![conv] = Append(@, Prefix(user_msg, 50))]
              ELSE h1
    IN [metrics |-> [m EXCEPT !.total_messages = @ + 1], heap |-> h2]

\* track_conversation on the dict m and the lists h; bot_response is not read
TrackConversation(m, h, user_msg, bot_response) ==
    LET sat == m.user_satisfaction
        conv == m.conversion_indicators
        h1 == IF ContainsAny(Lower(user_msg), PositiveIndicators)
              THEN [h EXCEPT ![sat] = Append(@, Positive)]
              ELSE h
        h2 == IF ContainsAny(Lower(user_msg), ConversionIndicators)
              THEN [h1 EXCEPT ![conv] = Append(@, Prefix(user_msg, 50))]
              ELSE h1
    IN [metrics |-> [m EXCEPT !.total_messages = @ + 1], heap |-> h2]

\* get_metrics: dict.copy(), a new dict holding the same values
GetMetricsCopy(m) ==
    [total_messages |-> m.total_messages,
     user_satisfaction |-> m.user_satisfaction,
     conversion_indicators |-> m.conversion_indicators]

\* the metrics as a later get_metrics() or track_conversation reads them
InternalMetrics ==
    [total_messages |-> metrics.total_messages,
     user_satisfaction |-> heap[metrics.user_satisfaction],
     conversion_indicators |-> heap[metrics.conversion_indicators]]

TrackMessages == {M_hola, M_gracias, M_precio, M_me_gusta_cinturon, M_largo}

LLMText == <<"Claro, te cuento.">>
LLMTextAlt == <<"Gracias por tu compra, precio especial.">>
BotResponses == {EmptyStr, LLMTextAlt}

InitMetrics ==
    /\ op = Idle
    /\ Fresh

\* AnalyticsAgent.track_conversation called directly
Track ==
    /\ metrics.total_messages < MaxTracks
    /\ \E user_msg \in TrackMessages, bot_response \in BotResponses :
         LET r == TrackConversation(metrics, heap, user_msg, bot_response)
         IN /\ metrics' = r.metrics
            /\ heap' = r.heap
            /\ op' = Operation("track_conversation", user_msg, bot_response, EnvOk, <<>>, NoResult)
    /\ UNCHANGED <<views, orchestrator>>

\* AnalyticsAgent.get_metrics called directly
GetMetrics ==
    /\ Len(views) < MaxViews
    /\ views' = Append(views, GetMetricsCopy(metrics))
    /\ op' = Operation("get_metrics", EmptyStr, EmptyStr, EnvOk, <<>>, NoResult)
    /\ UNCHANGED <<metrics, heap, orchestrator>>

\* MainBaekhoAgent.get_conversation_stats: the analytics agent's get_metrics
GetConversationStats ==
    /\ Len(views) < MaxViews
    /\ views' = Append(views, GetMetricsCopy(metrics))
    /\ op' = Operation("get_conversation_stats", EmptyStr, EmptyStr, EnvOk, <<>>, NoResult)
    /\ UNCHANGED <<metrics, heap, orchestrator>>

NextMetrics ==
    \/ Track
    \/ GetMetrics
    \/ GetConversationStats

SpecMetrics == InitMetrics /\ [][NextMetrics]_vars

----------------------------------------------------------------------------
(* A caller that writes to the mapping get_metrics() returned *)

ListKeys == {"user_satisfaction", "conversion_indicators"}

CallerItem == <<"spam">>

\* returned["total_messages"] = 0
CallerSetsTotal ==
    /\ \E i \in 1..Len(views) :
         /\ views[i].total_messages # 0
         /\ views' = [views EXCEPT ![i].total_messages = 0]
    /\ op' = Operation("caller_sets_total", EmptyStr, EmptyStr, EnvOk, <<>>, NoResult)
    /\ UNCHANGED <<metrics, heap, orchestrator>>

\* returned[key].append(item)
CallerAppends ==
    /\ \E i \in 1..Len(views), key \in ListKeys :
         /\ Len(heap[views[i][key]]) < MaxListLen
         /\ heap' = [heap EXCEPT ![views[i][key]] = Append(@, CallerItem)]
    /\ op' = Operation("caller_appends", EmptyStr, EmptyStr, EnvOk, <<>>, NoResult)
    /\ UNCHANGED <<metrics, views, orchestrator>>

\* returned[key].clear()
CallerClears ==
    /\ \E i \in 1..Len(views), key \in ListKeys :
         heap' = [heap EXCEPT ![views[i][key]] = <<>>]
    /\ op' = Operation("caller_clears", EmptyStr, EmptyStr, EnvOk, <<>>, NoResult)
    /\ UNCHANGED <<metrics, views, orchestrator>>

NextCaller ==
    \/ NextMetrics
    \/ CallerSetsTotal
    \/ CallerAppends
    \/ CallerClears

SpecCaller == InitMetrics /\ [][NextCaller]_vars

----------------------------------------------------------------------------
(* MainBaekhoAgent.handle_user_message *)

ApologyMessage ==
    <<"Lo siento, hubo un error procesando tu consulta. Por favor intenta de nuevo.">>

\* the f-string context_prompt
ContextPrompt(message, knowledge_response, sales_response) ==
    <<"Consulta del usuario: ">> \o message
    \o <<"Información de productos encontrada: ">> \o knowledge_response
    \o <<"Recomendaciones de ventas: ">> \o sales_response
    \o <<"Basándote en esta información, proporciona una respuesta completa y útil al usuario. Mantén el tono amigable y comercial de BaekhoBot.">>

CallMessages == {M_descuento_uniforme, M_me_gusta_cinturon}
CallEnvs == {EnvOk, EnvVectorSideDown}
LLMOutcomes == {Ok(LLMText), Fails(ExcTimeout)}
HistoryEnvs == {EnvOk, EnvDbFails(ExcRefused)}

Pending == [raises |-> FALSE, exc |-> EmptyStr, value |-> <<"pending">>]

\* what the coroutine has called so far: the callee and, for track_conversation, bot_response
Event(name, arg) == <<name>> \o arg

NewCall(message) ==
    [message |-> message, pc |-> "track1", env |-> EnvOk,
     knowledge_response |-> NoResult, invoked |-> <<>>, sales_response |-> NoResult,
     context_prompt |-> EmptyStr, llm |-> Pending, final_response |-> EmptyStr,
     exc |-> EmptyStr, ret |-> NoResult, trace |-> <<>>]

InitMain ==
    /\ op = Idle
    /\ Fresh

\* the event loop starts a handle_user_message coroutine
Begin ==
    /\ running = 0
    /\ Len(calls) < MaxCalls
    /\ \E message \in CallMessages :
         calls' = Append(calls, NewCall(message))
    /\ running' = Len(calls) + 1
    /\ UNCHANGED <<op, analytics, completions>>

\* self.analytics_agent.track_conversation(message, "")
StepTrack1(c) ==
    /\ running = c
    /\ calls[c].pc = "track1"
    /\ LET r == TrackConversation(metrics, heap, calls[c].message, EmptyStr)
       IN /\ metrics' = r.metrics
          /\ heap' = r.heap
    /\ calls' = [calls EXCEPT ![c].pc = "knowledge",
                              ![c].trace = Append(@, Event("track_conversation", EmptyStr))]
    /\ UNCHANGED <<op, views, running, completions>>

\* knowledge_response = self.knowledge_agent.handle_message_fallback(message)
StepKnowledge(c) ==
    /\ running = c
    /\ calls[c].pc = "knowledge"
    /\ \E env \in CallEnvs :
         LET r == KnowledgeAgent_handle_message_fallback(calls[c].message, env)
         IN calls' = [calls EXCEPT ![c].env = env,
                                   ![c].knowledge_response = r.ret,
                                   ![c].invoked = r.invoked,
                                   ![c].exc = IF r.ret.type = "raise" THEN r.ret.val ELSE @,
                                   ![c].pc = IF r.ret.type = "raise" THEN "except" ELSE "sales",
                                   ![c].trace = Append(@, Event("knowledge_agent", EmptyStr))]
    /\ UNCHANGED <<op, analytics, running, completions>>

\* sales_response = self.sales_agent.handle_message_fallback(message)
StepSales(c) ==
    /\ running = c
    /\ calls[c].pc = "sales"
    /\ LET r == SalesAgent_handle_message_fallback(calls[c].message)
       IN calls' = [calls EXCEPT ![c].sales_response = r,
                                 ![c].exc = IF r.type = "raise" THEN r.val ELSE @,
                                 ![c].pc = IF r.type = "raise" THEN "except" ELSE "llm",
                                 ![c].trace = Append(@, Event("sales_agent", EmptyStr))]
    /\ UNCHANGED <<op, analytics, running, completions>>

\* the request with the second tracking call moved in front of the await
StepRequestLLM_TrackFirst(c) ==
    /\ running = c
    /\ calls[c].pc = "llm"
    /\ LET r == TrackConversation(metrics, heap, calls[c].message, calls[c].final_response)
       IN /\ metrics' = r.metrics
          /\ heap' = r.heap
    /\ calls' = [calls EXCEPT ![c].context_prompt =
                                  ContextPrompt(calls[c].message, calls[c].knowledge_response.val,
                                                calls[c].sales_response.val),
                              ![c].pc = "await",
                              ![c].trace = @ \o <<Event("track_conversation", calls[c].final_response),
                                                  Event("llm_request", EmptyStr)>>]
    /\ running' = 0
    /\ UNCHANGED <<op, views, completions>>

\* context_prompt is built and llm_response_async(context_prompt) is awaited:
\* the coroutine is suspended and the event loop is free
StepRequestLLM(c) ==
    /\ running = c
    /\ calls[c].pc = "llm"
    /\ calls' = [calls EXCEPT ![c].context_prompt =
                                  ContextPrompt(calls[c].message, calls[c].knowledge_response.val,
                                                calls[c].sales_response.val),
                              ![c].pc = "await",
                              ![c].trace = Append(@, Event("llm_request", EmptyStr))]
    /\ running' = 0
    /\ UNCHANGED <<op, analytics, completions>>

\* the awaited completion arrives (a text or an exception) and the coroutine resumes
LLMCompletes(c) ==
    /\ running = 0
    /\ calls[c].pc = "await"
    /\ \E outcome \in LLMOutcomes :
         calls' = [calls EXCEPT ![c].llm = outcome,
                                ![c].final_response = IF outcome.raises THEN @ ELSE outcome.value,
                                ![c].exc = IF outcome.raises THEN outcome.exc ELSE @,
                                ![c].pc = IF outcome.raises THEN "except" ELSE "track2",
                                ![c].trace = Append(@, IF outcome.raises
                                                       THEN Event("llm_error", EmptyStr)
                                                       ELSE Event("llm_response", EmptyStr))]
    /\ running' = c
    /\ completions' = Append(completions, c)
    /\ UNCHANGED <<op, analytics>>

\* self.analytics_agent.track_conversation(message, final_response)
StepTrack2(c) ==
    /\ running = c
    /\ calls[c].pc = "track2"
    /\ LET r == TrackConversation(metrics, heap, calls[c].message, calls[c].final_response)
       IN /\ metrics' = r.metrics
          /\ heap' = r.heap
    /\ calls' = [calls EXCEPT ![c].pc = "return",
                              ![c].trace = Append(@, Event("track_conversation", calls[c].final_response))]
    /\ UNCHANGED <<op, views, running, completions>>

\* return final_response
StepReturn(c) ==
    /\ running = c
    /\ calls[c].pc = "return"
    /\ calls' = [calls EXCEPT ![c].ret = Return(calls[c].final_response),
                              ![c].pc = "done",
                              ![c].trace = Append(@, Event("return", EmptyStr))]
    /\ running' = 0
    /\ UNCHANGED <<op, analytics, completions>>

\* a handler that logs and raises again
StepExcept_Reraise(c) ==
    /\ running = c
    /\ calls[c].pc = "except"
    /\ calls' = [calls EXCEPT ![c].ret = Raise(calls[c].exc),
                              ![c].pc = "done",
                              ![c].trace = Append(@, Event("return", EmptyStr))]
    /\ running' = 0
    /\ UNCHANGED <<op, analytics, completions>>

\* a handler that takes the first tracking call back
StepExcept_Rollback(c) ==
    /\ running = c
    /\ calls[c].pc = "except"
    /\ calls' = [calls EXCEPT ![c].ret = Return(ApologyMessage),
                              ![c].pc = "done",
                              ![c].trace = Append(@, Event("return", EmptyStr))]
    /\ metrics' = [metrics EXCEPT !.total_messages = @ - 1]
    /\ running' = 0
    /\ UNCHANGED <<op, heap, views, completions>>

\* except Exception as e: the apology is returned
StepExcept(c) ==
    /\ running = c
    /\ calls[c].pc = "except"
    /\ calls' = [calls EXCEPT ![c].ret = Return(ApologyMessage),
                              ![c].pc = "done",
                              ![c].trace = Append(@, Event("return", EmptyStr))]
    /\ running' = 0
    /\ UNCHANGED <<op, analytics, completions>>

\* UserHistoryTool.handle dispatched while no coroutine runs
InvokeUserHistoryTool ==
    /\ running = 0
    /\ \E env \in HistoryEnvs, user_id \in 1..2 :
         op' = Operation("UserHistoryTool.handle", EmptyStr, EmptyStr, EnvOk, <<>>,
                         UserHistoryTool_handle(user_id, 10, env))
    /\ UNCHANGED <<analytics, orchestrator>>

Next ==
    \/ Begin
    \/ \E c \in 1..Len(calls) : StepTrack1(c)
    \/ \E c \in 1..Len(calls) : StepKnowledge(c)
    \/ \E c \in 1..Len(calls) : StepSales(c)
    \/ \E c \in 1..Len(calls) : StepRequestLLM(c)
    \/ \E c \in 1..Len(calls) : LLMCompletes(c)
    \/ \E c \in 1..Len(calls) : StepTrack2(c)
    \/ \E c \in 1..Len(calls) : StepReturn(c)
    \/ \E c \in 1..Len(calls) : StepExcept(c)
    \/ InvokeUserHistoryTool

Spec == InitMain /\ [][Next]_vars

----------------------------------------------------------------------------
(* Claims about the agents invoked directly (SpecAgents) *)

KnowledgeDone == op.name = "KnowledgeAgent.handle_message_fallback"
SalesDone == op.name = "SalesAgent.handle_message_fallback"

\* C1: KnowledgeAgent.handle_message_fallback invokes exactly one tool: the
\* promotion search (and not the product search) when the lowercased message
\* contains "promocion", "descuento" or "oferta", and otherwise the product
\* search (and not the promotion search) with the unmodified message as query.
C1_KnowledgeRouting ==
    KnowledgeDone =>
        /\ Len(op.invoked) = 1
        /\ IF ContainsAny(Lower(op.msg), {KW_promocion, KW_descuento, KW_oferta})
           THEN op.invoked[1].tool = "promotion_search"
           ELSE /\ op.invoked[1].tool = "product_search"
                /\ op.invoked[1].query = op.msg

\* a mixed-case keyword, split over two fragments, routed to the promotion search
C1_Witness ==
    /\ KnowledgeDone
    /\ op.msg = F_Promo \o F_cion
    /\ Len(op.invoked) = 1
    /\ op.invoked[1].tool = "promotion_search"

\* C2: SalesAgent.handle_message_fallback returns a suggestion iff the
\* lowercased message contains "uniforme", "cinturon" or "proteccion"; the
\* keywords are tried in the order uniform, belt, protection and only the first
\* match's suggestion is returned; with no match it returns the filler string.
C2_SalesSuggestion ==
    SalesDone =>
        LET m == Lower(op.msg)
            hasUniform == Contains(m, KW_uniforme)
            hasBelt == Contains(m, KW_cinturon)
            hasProtection == Contains(m, KW_proteccion)
        IN /\ op.ret.type = "str"
           /\ hasUniform => op.ret.val = SuggestionPrefix \o SuggestBeltOrProtection
           /\ (~hasUniform /\ hasBelt) => op.ret.val = SuggestionPrefix \o SuggestUniform
           /\ (~hasUniform /\ ~hasBelt /\ hasProtection) =>
                  op.ret.val = SuggestionPrefix \o SuggestGloves
           /\ (~hasUniform /\ ~hasBelt /\ ~hasProtection) <=> (op.ret.val = ContinueMessage)

\* belt first in the text, uniform second: the uniform's suggestion alone is returned
C2_Witness ==
    /\ SalesDone
    /\ op.msg = F_Cinturon \o F_Uniforme
    /\ op.ret = Return(SuggestionPrefix \o SuggestBeltOrProtection)

\* the exception the delegated tool's collaborators raise in this environment
DelegateFailure(msg, env) ==
    IF ContainsAny(Lower(msg), PromotionKeywords)
    THEN IF env.qdrant_init.raises THEN env.qdrant_init
         ELSE IF env.search_similar.raises THEN env.search_similar
         ELSE Ok(<<>>)
    ELSE IF env.qdrant_init.raises THEN env.qdrant_init
         ELSE IF env.encode_query.raises THEN env.encode_query
         ELSE IF env.search_similar.raises THEN env.search_similar
         ELSE Ok(<<>>)

\* C8 as stated: when the delegated tool's collaborator raises,
\* handle_message_fallback returns the fixed string "Lo siento, hubo un error
\* accediendo a la base de conocimiento.", whatever the exception.
C8_Original ==
    (KnowledgeDone /\ DelegateFailure(op.msg, op.env).raises) =>
        op.ret = Return(KnowledgeErrorMessage)

\* C8 amended: when the delegated tool's collaborator raises, the tool catches
\* the exception itself and handle_message_fallback returns the tool's error
\* string, "Error ejecutando búsqueda: " (product search) or "Error obteniendo
\* promociones: " (promotion search) followed by the exception's text.
C8_KnowledgeToolError ==
    (KnowledgeDone /\ DelegateFailure(op.msg, op.env).raises) =>
        LET e == DelegateFailure(op.msg, op.env).exc
        IN /\ op.ret.type = "str"
           /\ op.ret.val # KnowledgeErrorMessage
           /\ op.invoked[1].tool = "product_search" => op.ret.val = ProductErrorPrefix \o e
           /\ op.invoked[1].tool = "promotion_search" => op.ret.val = PromotionErrorPrefix \o e

\* the embedding service timed out under a product query
C8_Witness ==
    /\ KnowledgeDone
    /\ op.env = EnvEmbedFails(ExcTimeout)
    /\ op.invoked[1].tool = "product_search"
    /\ op.ret = Return(ProductErrorPrefix \o ExcTimeout)


----------------------------------------------------------------------------
(* Claims about AnalyticsAgent (SpecMetrics, SpecCaller) *)

\* C9: each track_conversation(user_msg, bot_response) call adds exactly 1 to
\* total_messages, appends "positive" once iff the lowercased user_msg contains
\* a positive keyword, appends the first 50 characters of user_msg once iff it
\* contains a conversion keyword, and changes nothing else, whatever
\* bot_response is; so every conversion entry has at most 50 characters and
\* neither sequence is longer than total_messages.
C9_TrackEffect ==
    /\ [][op'.name = "track_conversation" =>
            LET m == op'.msg
                isPositive == \E k \in {KW_gracias, KW_perfecto, KW_excelente, KW_me_gusta} :
                                  Contains(Lower(m), k)
                isConversion == \E k \in {KW_comprar, KW_precio, KW_disponible, KW_stock} :
                                    Contains(Lower(m), k)
            IN /\ InternalMetrics'.total_messages = InternalMetrics.total_messages + 1
               /\ InternalMetrics'.user_satisfaction =
                      IF isPositive
                      THEN Append(InternalMetrics.user_satisfaction, <<"positive">>)
                      ELSE InternalMetrics.user_satisfaction
               /\ InternalMetrics'.conversion_indicators =
                      IF isConversion
                      THEN Append(InternalMetrics.conversion_indicators, Prefix(m, 50))
                      ELSE InternalMetrics.conversion_indicators
               /\ metrics'.user_satisfaction = metrics.user_satisfaction
               /\ metrics'.conversion_indicators = metrics.conversion_indicators
               /\ views' = views]_vars
    /\ [](/\ \A i \in 1..Len(InternalMetrics.conversion_indicators) :
                Len(InternalMetrics.conversion_indicators[i]) <= 50
          /\ Len(InternalMetrics.user_satisfaction) <= InternalMetrics.total_messages
          /\ Len(InternalMetrics.conversion_indicators) <= InternalMetrics.total_messages)

\* a 60-character message with an upper-case conversion keyword, tracked with a
\* non-empty bot_response after an earlier call: a 50-character snippet is kept
C9_Witness ==
    /\ op.name = "track_conversation"
    /\ op.msg = M_largo
    /\ op.arg # EmptyStr
    /\ InternalMetrics.total_messages = 2
    /\ Len(InternalMetrics.conversion_indicators) > 0
    /\ LET last == InternalMetrics.conversion_indicators[Len(InternalMetrics.conversion_indicators)]
       IN Len(last) = 50 /\ last = SubSeq(M_largo, 1, 50)

CallerWrites == {"caller_sets_total", "caller_appends", "caller_clears"}

\* C3: get_metrics() returns a copy: nothing a caller does to the returned
\* mapping (reassigning total_messages, appending to or clearing the sequences
\* reached through it) changes the agent's metrics as a later get_metrics() or
\* track_conversation reads them.
C3_CopyIsolates ==
    [][op'.name \in CallerWrites => InternalMetrics' = InternalMetrics]_vars


----------------------------------------------------------------------------
(* Claims about MainBaekhoAgent.handle_user_message (Spec) *)

CallIds == 1..Len(calls)

AllReturned == running = 0 /\ \A c \in CallIds : calls[c].pc = "done"

LLMSucceeded(c) == calls[c].llm # Pending /\ ~calls[c].llm.raises
LLMFailed(c) == calls[c].llm.raises

IsPrefixOf(a, b) == Len(a) <= Len(b) /\ SubSeq(b, 1, Len(a)) = a

Occurrences(trace, event) == Cardinality({i \in 1..Len(trace) : trace[i] = event})

\* C4 as stated: after n handle_user_message calls that have each returned,
\* total_messages equals 2*n.
C4_Original ==
    AllReturned => InternalMetrics.total_messages = 2 * Len(calls)

\* C4 amended: after n handle_user_message calls that have each returned,
\* total_messages equals 2*n minus the number of those calls whose LLM
\* completion raised (such a call returns the apology and is tracked once).
C4_TotalPerTurn ==
    AllReturned =>
        /\ InternalMetrics.total_messages =
               2 * Len(calls) - Cardinality({c \in CallIds : LLMFailed(c)})
        /\ \A c \in CallIds : LLMFailed(c) <=> calls[c].ret = Return(ApologyMessage)

\* two calls have returned, one with the LLM's text and one with the apology
C4_Witness ==
    /\ AllReturned
    /\ Len(calls) = 2
    /\ calls[1].ret = Return(LLMText)
    /\ calls[2].ret = Return(ApologyMessage)
    /\ InternalMetrics.total_messages = 3

SuccessTrace(c) ==
    <<Event("track_conversation", EmptyStr), Event("knowledge_agent", EmptyStr),
      Event("sales_agent", EmptyStr), Event("llm_request", EmptyStr),
      Event("llm_response", EmptyStr), Event("track_conversation", calls[c].final_response),
      Event("return", EmptyStr)>>

FailureTrace ==
    <<Event("track_conversation", EmptyStr), Event("knowledge_agent", EmptyStr),
      Event("sales_agent", EmptyStr), Event("llm_request", EmptyStr),
      Event("llm_error", EmptyStr), Event("return", EmptyStr)>>

\* C5: within one handle_user_message call the steps happen in this order, each
\* at most once: track_conversation(message, ""), KnowledgeAgent, SalesAgent,
\* the LLM request, track_conversation(message, final_response), return; the LLM
\* is never requested before Knowledge and Sales have returned and the second
\* tracking call never precedes the LLM's completion.
C5_StepOrder ==
    \A c \in CallIds :
        /\ \/ IsPrefixOf(calls[c].trace, SuccessTrace(c))
           \/ IsPrefixOf(calls[c].trace, FailureTrace)
        /\ calls[c].pc = "done" =>
               calls[c].trace = (IF LLMFailed(c) THEN FailureTrace ELSE SuccessTrace(c))
        /\ calls[c].pc = "await" => Len(calls[c].trace) = 4

\* a call that went through all six steps while another call was suspended
C5_Witness ==
    /\ Len(calls) = 2
    /\ calls[1].pc = "await"
    /\ calls[2].pc = "done"
    /\ calls[2].final_response = LLMText
    /\ calls[2].trace = SuccessTrace(2)

\* C6: no exception escapes a tool or agent boundary: whatever collaborator
\* fails, the tool handlers, KnowledgeAgent, SalesAgent and handle_user_message
\* return a string; handle_user_message returns the LLM's final_response when
\* nothing raised inside it and the fixed apology string otherwise.
C6_NoEscape ==
    /\ op.name = "UserHistoryTool.handle" => op.ret.type = "str"
    /\ \A c \in CallIds :
        /\ \A i \in 1..Len(calls[c].invoked) : calls[c].invoked[i].ret.type = "str"
        /\ Len(calls[c].trace) >= 2 => calls[c].knowledge_response.type = "str"
        /\ Len(calls[c].trace) >= 3 => calls[c].sales_response.type = "str"
        /\ calls[c].pc = "done" =>
               /\ calls[c].ret.type = "str"
               /\ calls[c].ret.val =
                      IF LLMSucceeded(c) THEN calls[c].llm.value ELSE ApologyMessage

\* the relational layer, the vector store and the LLM have all failed
C6_Witness ==
    /\ op.ret = Return(HistoryErrorPrefix \o ExcRefused)
    /\ \E c \in CallIds :
         /\ calls[c].pc = "done"
         /\ calls[c].env = EnvVectorSideDown
         /\ calls[c].llm = Fails(ExcTimeout)
         /\ calls[c].ret = Return(ApologyMessage)

AfterRequest == {"await", "track2", "return", "except", "done"}

\* C7: when the vector-search or embedding collaborator fails while
\* KnowledgeAgent handles the message, handle_user_message still runs
\* SalesAgent, still issues exactly one LLM completion whose prompt contains
\* the string Knowledge fell back to and the Sales response, and still makes
\* the second tracking call when the LLM succeeds.
C7_PipelineContinues ==
    \A c \in CallIds :
        (/\ Len(calls[c].trace) >= 2
         /\ VectorSideFails(calls[c].env)
         /\ DelegateFailure(calls[c].message, calls[c].env).raises) =>
            /\ calls[c].knowledge_response.type = "str"
            /\ calls[c].pc # "except" \/ LLMFailed(c)
            /\ calls[c].pc \in AfterRequest =>
                   /\ Occurrences(calls[c].trace, Event("sales_agent", EmptyStr)) = 1
                   /\ Occurrences(calls[c].trace, Event("llm_request", EmptyStr)) = 1
                   /\ Contains(calls[c].context_prompt, calls[c].knowledge_response.val)
                   /\ Contains(calls[c].context_prompt, calls[c].sales_response.val)
            /\ calls[c].pc = "done" =>
                   /\ calls[c].llm # Pending
                   /\ LLMSucceeded(c) =>
                          /\ Occurrences(calls[c].trace,
                                         Event("track_conversation", calls[c].llm.value)) = 1
                          /\ calls[c].ret = Return(calls[c].llm.value)

\* the embedding service timed out under a product query, the vector store refused
\* the connection under a promotion query, and both calls went on to the end
C7_Witness ==
    \E c, d \in CallIds :
        /\ calls[c].pc = "done"
        /\ calls[c].message = M_me_gusta_cinturon
        /\ calls[c].env = EnvVectorSideDown
        /\ calls[c].knowledge_response = Return(ProductErrorPrefix \o ExcTimeout)
        /\ calls[d].pc = "done"
        /\ calls[d].message = M_descuento_uniforme
        /\ calls[d].env = EnvVectorSideDown
        /\ calls[d].knowledge_response = Return(PromotionErrorPrefix \o ExcRefused)
        /\ calls[d].ret = Return(LLMText)
        /\ calls[c].ret = Return(LLMText)

RECURSIVE SumOver(_, _)
SumOver(f, n) == IF n = 0 THEN 0 ELSE f[n] + SumOver(f, n - 1)

\* the track_conversation calls a returned call has made
TracksOf(c) == IF LLMSucceeded(c) THEN 2 ELSE 1

ExpectedSatisfaction ==
    SumOver([c \in CallIds |->
                 IF ContainsAny(Lower(calls[c].message), PositiveIndicators)
                 THEN TracksOf(c) ELSE 0], Len(calls))

ExpectedConversions ==
    SumOver([c \in CallIds |->
                 IF ContainsAny(Lower(calls[c].message), ConversionIndicators)
                 THEN TracksOf(c) ELSE 0], Len(calls))

\* C10: when several handle_user_message calls are in flight and interleave at
\* the awaited LLM completion, no metrics update is lost: once all have
\* returned, total_messages is 2 per call whose completion succeeded plus 1 per
\* call whose completion failed, in whatever order the completions arrived, and
\* no step ever takes a tracked message back.
C10_NoLostUpdate ==
    /\ [](AllReturned =>
            /\ InternalMetrics.total_messages =
                   2 * Cardinality({c \in CallIds : LLMSucceeded(c)})
                   + Cardinality({c \in CallIds : LLMFailed(c)})
            /\ Len(InternalMetrics.user_satisfaction) = ExpectedSatisfaction
            /\ Len(InternalMetrics.conversion_indicators) = ExpectedConversions)
    /\ [][/\ InternalMetrics'.total_messages >= InternalMetrics.total_messages
          /\ IsPrefixOf(InternalMetrics.user_satisfaction, InternalMetrics'.user_satisfaction)
          /\ IsPrefixOf(InternalMetrics.conversion_indicators,
                        InternalMetrics'.conversion_indicators)]_vars

\* two calls were suspended together, the second completed first and the first failed
C10_Witness ==
    /\ AllReturned
    /\ Len(calls) = 2
    /\ completions = <<2, 1>>
    /\ LLMFailed(1)
    /\ LLMSucceeded(2)
    /\ InternalMetrics.total_messages = 3

====
